---- MODULE Spec2Model ----
(***************************************************************************)
(* Model of the Monday.com sales dashboard (src/app.py):                   *)
(*   main              - one run of the script per user interaction        *)
(*   fetch_items_recursive (src/monday_extract_groups.py) - cursor paging  *)
(*   fetch_data        - ingests the seven board groups into stage tables  *)
(*   items_to_dataframe - raw items -> table                               *)
(*   process_data      - the metrics engine (per-owner rows + Total row)   *)
(*                                                                         *)
(* Text cells are modelled by their shape, [k |-> kind, d |-> payload]:    *)
(*   None        Python None (a JSON null text)                            *)
(*   NaN         float nan (pandas' filler for a missing key)              *)
(*   Empty       the empty string ''                                       *)
(*   Garbage     a text that is neither a date nor a number ("abc")        *)
(*   Iso(d)      the text "YYYY-MM-DD" of calendar day d                   *)
(*   Embedded(d) a text that contains "YYYY-MM-DD" of day d among other    *)
(*               words ("moved to 2024-10-02"), not parseable as a date    *)
(*   Num(n)      the decimal text of the number n ("100")                  *)
(*   Name(n)     the display name of owner n                               *)
(* Floats are [k |-> "num", n |-> numerator, d |-> denominator] in lowest  *)
(* terms, or the specials NaNf and Inf.                                    *)
(***************************************************************************)
EXTENDS Integers, Sequences, FiniteSets, TLC

\* ------------------------------------------------------------------ bounds
MaxDay == 2            \* start and end dates range over days 0..MaxDay
MaxCalls == 2          \* process_data calls made on one fetched mapping
MaxEmptyGroups == 1    \* board groups that hold no item
MaxPages == 3          \* pages the server cuts the items of a group into
MaxItemsPerPage == 2   \* items on one page
MaxRuns == 2           \* runs of the dashboard script in one session

\* ------------------------------------------------------------- text cells
Cell(k, d) == [k |-> k, d |-> d]
None == Cell("None", 0)
NaN == Cell("NaN", 0)
Empty == Cell("empty", 0)
Garbage == Cell("text", 0)
Iso(d) == Cell("iso", d)
Embedded(d) == Cell("embedded", d)
Num(n) == Cell("num", n)
Name(n) == Cell("name", n)
NaT == Cell("NaT", 0)
Date(d) == Cell("date", d)
TotalOwner == Cell("Total", 0)

\* pd.isna on a scalar cell
isna(v) == v.k \in {"None", "NaN", "NaT"}

\* isinstance(value, str)
isstr(v) == v.k \in {"empty", "text", "iso", "embedded", "num", "name", "Total"}

\* re.search(date_pattern, value): the first YYYY-MM-DD inside the text
date_pattern(v) == IF v.k \in {"iso", "embedded"} THEN Iso(v.d) ELSE None

\* extract_date returning the parsed date instead of the matched text
extract_date_AsDate(value) ==
    IF isna(value) THEN None
    ELSE IF isstr(value)
         THEN (IF date_pattern(value) = None THEN None
               ELSE Date(date_pattern(value).d))
    ELSE None

extract_date(value) ==
    IF isna(value) THEN None
    ELSE IF isstr(value) THEN date_pattern(value)
    ELSE None

\* ------------------------------------------------------------- data frames
\* A table: its column labels in order and its rows (label -> cell).
DataFrame(cols, rows) == [columns |-> cols, rows |-> rows]
EmptyDataFrame == DataFrame(<<>>, <<>>)

Range(s) == {s[j] : j \in 1..Len(s)}
HasColumn(df, c) == c \in Range(df.columns)

\* dict.get(key, default)
Get(d, key, default) == IF key \in DOMAIN d THEN d[key] ELSE default

\* A raw item of the API: id, name and a list of column_values, each a dict
\* with an 'id' and (normally) a 'text' that may be null.
ColumnIds(item) == [j \in 1..Len(item.column_values) |-> item.column_values[j].id]

\* row = {'Item ID':.., 'Item Name':..}; row[column['id']] = column.get('text','')
\* (a later column_value with the same id overwrites an earlier one)
RowDict(item) ==
    LET cv == item.column_values
        ids == {cv[j].id : j \in 1..Len(cv)}
        last(c) == CHOOSE j \in 1..Len(cv) :
                      cv[j].id = c /\ \A m \in (j+1)..Len(cv) : cv[m].id # c
    IN  [c \in {"Item ID", "Item Name"} \cup ids |->
            IF c = "Item ID" THEN item.id
            ELSE IF c = "Item Name" THEN item.name
            ELSE Get(cv[last(c)], "text", Empty)]

\* pd.DataFrame(data, columns=headers): keys outside headers are dropped,
\* headers missing from a row dict are filled with nan
FrameFromDicts(data, headers) ==
    DataFrame(headers,
        [j \in 1..Len(data) |->
            [c \in Range(headers) |-> Get(data[j], c, NaN)]])

items_to_dataframe(its) ==
    IF its = <<>> THEN EmptyDataFrame
    ELSE LET column_ids == ColumnIds(its[1])
             headers == <<"Item ID", "Item Name">> \o column_ids
             data == [j \in 1..Len(its) |-> RowDict(its[j])]
         IN  FrameFromDicts(data, headers)

\* ------------------------------------------------------------------ floats
RECURSIVE GCD(_, _)
GCD(a, b) == IF b = 0 THEN a ELSE GCD(b, a % b)

NaNf == [k |-> "nan", n |-> 0, d |-> 0]
Inf == [k |-> "inf", n |-> 1, d |-> 0]
\* the float n/d, n >= 0 and d > 0, in lowest terms
F(n, d) == LET g == GCD(n, d) IN [k |-> "num", n |-> n \div g, d |-> d \div g]
Zero == F(0, 1)
Flt(n) == F(n, 1)

\* numpy float division: x/0 is inf, 0/0 and anything with nan is nan
FDiv(x, y) ==
    IF x.k = "nan" \/ y.k = "nan" THEN NaNf
    ELSE IF x.k = "inf" THEN (IF y.k = "inf" THEN NaNf ELSE Inf)
    ELSE IF y.k = "inf" THEN Zero
    ELSE IF y.n = 0 THEN (IF x.n = 0 THEN NaNf ELSE Inf)
    ELSE F(x.n * y.d, x.d * y.n)

FAdd(x, y) ==
    IF x.k = "nan" \/ y.k = "nan" THEN NaNf
    ELSE IF x.k = "inf" \/ y.k = "inf" THEN Inf
    ELSE F(x.n * y.d + y.n * x.d, x.d * y.d)

\* value * 100
Times100(x) == IF x.k = "num" THEN F(x.n * 100, x.d) ELSE x

\* scalar .fillna(0)
fillna0(x) == IF x.k = "nan" THEN Zero ELSE x

\* pd.to_numeric(text, errors='coerce'): the number of a numeric text, else nan
to_numeric(v) == IF v.k = "num" THEN Flt(v.d) ELSE NaNf

\* pd.to_datetime(value, errors='coerce').date(): the day of a date text or of
\* a date, else NaT
to_datetime(v) == IF v.k \in {"iso", "date"} THEN Date(v.d) ELSE NaT

\* ------------------------------------------------------------------ series
\* A Series indexed by Owner is a function from its index set to floats.
EmptySeries == [o \in {} |-> Zero]

\* a / b : aligned on the union of both indexes, nan where one side is absent
SeriesDiv(a, b) ==
    [o \in DOMAIN a \cup DOMAIN b |->
        IF o \in DOMAIN a /\ o \in DOMAIN b THEN FDiv(a[o], b[o]) ELSE NaNf]

\* a + b : aligned on the union of both indexes, nan where one side is absent
SeriesAdd(a, b) ==
    [o \in DOMAIN a \cup DOMAIN b |->
        IF o \in DOMAIN a /\ o \in DOMAIN b THEN FAdd(a[o], b[o]) ELSE NaNf]

\* s.replace([np.inf, -np.inf], 0) without the fillna(0)
ReplaceInfOnly(s) ==
    [o \in DOMAIN s |-> IF s[o].k = "inf" THEN Zero ELSE s[o]]

\* s.replace([np.inf, -np.inf], 0).fillna(0)
ReplaceInfFillna(s) ==
    [o \in DOMAIN s |-> IF s[o].k \in {"inf", "nan"} THEN Zero ELSE s[o]]

\* df['Owner'].map(s) at one owner: nan when the owner is not in the index
MapOwner(s, o) == IF o \in DOMAIN s THEN s[o] ELSE NaNf

RECURSIVE SumSeqButLast(_)
\* a sum that stops one element short
SumSeqButLast(s) ==
    IF Len(s) <= 1 THEN 0 ELSE Head(s) + SumSeqButLast(Tail(s))

RECURSIVE SumSeq(_)
SumSeq(s) == IF s = <<>> THEN 0 ELSE Head(s) + SumSeq(Tail(s))

\* pd.Series(col.dropna()).unique(): distinct values in order of first appearance
RECURSIVE unique(_)
unique(s) ==
    IF s = <<>> THEN <<>>
    ELSE LET h == s[Len(s)]
             rest == unique(SubSeq(s, 1, Len(s) - 1))
         IN  IF h \in Range(rest) THEN rest ELSE Append(rest, h)

\* ------------------------------------------------------------ process_data
\* the order of lines 167-186: cancelled, lost, noshow, proposal, scheduled,
\* unqualified, won
list_all == <<"cancelled", "lost", "noshow", "proposal", "scheduled",
              "unqualified", "won">>

\* a cell of a row of a concatenated frame: nan where the row's frame had no
\* such column
CellOf(r, c) == IF c \in DOMAIN r THEN r[c] ELSE NaN

\* op_x['Sales Call Date'] = op_x['Sales Call Date'].apply(extract_date)
ApplyExtractDate(t) ==
    DataFrame(t.columns,
        [j \in 1..Len(t.rows) |->
            [t.rows[j] EXCEPT !["Sales Call Date"] = extract_date(@)]])

\* index in list_all of the first stage whose table has no 'Sales Call Date'
\* column (reading it raises KeyError), 0 when every stage has it
FirstKeyError(dataframes) ==
    LET bad == {j \in 1..Len(list_all) :
                  ~HasColumn(Get(dataframes, list_all[j], EmptyDataFrame),
                             "Sales Call Date")}
    IN  IF bad = {} THEN 0 ELSE CHOOSE j \in bad : \A m \in bad : j <= m

\* the caller's mapping after lines 176-182 ran up to the first KeyError
RewriteSalesCallDate(dataframes) ==
    LET fail == FirstKeyError(dataframes)
        pos(key) == CHOOSE j \in 1..Len(list_all) : list_all[j] = key
    IN  [key \in DOMAIN dataframes |->
            IF key \in Range(list_all) /\ (fail = 0 \/ pos(key) < fail)
            THEN ApplyExtractDate(dataframes[key])
            ELSE dataframes[key]]

RECURSIVE ConcatRows(_, _)
\* pd.concat([...], ignore_index=True) of the tables of the listed stages
ConcatRows(t, stages) ==
    IF stages = <<>> THEN <<>>
    ELSE t[Head(stages)].rows \o ConcatRows(t, Tail(stages))

ConcatColumns(t, stages) == UNION {Range(t[stages[j]].columns) : j \in 1..Len(stages)}

\* filter_date with the end of the range excluded
filter_date_EndExcluded(rows, dtcolumn, st_date, end_date) ==
    LET parsed == [j \in 1..Len(rows) |->
                     [c \in DOMAIN rows[j] \cup {dtcolumn} |->
                        IF c = dtcolumn THEN to_datetime(CellOf(rows[j], c))
                        ELSE rows[j][c]]]
        keep(r) == /\ r[dtcolumn].k = "date"
                   /\ r[dtcolumn].d >= st_date
                   /\ r[dtcolumn].d < end_date
    IN  SelectSeq(parsed, keep)

\* filter_date(df, dtcolumn): rows whose dtcolumn parses to a date within
\* [st_date, end_date]
filter_date(rows, dtcolumn, st_date, end_date) ==
    LET parsed == [j \in 1..Len(rows) |->
                     [c \in DOMAIN rows[j] \cup {dtcolumn} |->
                        IF c = dtcolumn THEN to_datetime(CellOf(rows[j], c))
                        ELSE rows[j][c]]]
        keep(r) == /\ r[dtcolumn].k = "date"
                   /\ r[dtcolumn].d >= st_date
                   /\ r[dtcolumn].d <= end_date
    IN  SelectSeq(parsed, keep)

\* groupby('Owner') keys: rows with a null Owner belong to no group
OwnerKeys(rows) == {CellOf(rows[j], "Owner") : j \in 1..Len(rows)} \ {None, NaN}

\* rows.groupby('Owner').size()
GroupSize(rows) ==
    [o \in OwnerKeys(rows) |->
        Flt(Cardinality({j \in 1..Len(rows) : CellOf(rows[j], "Owner") = o}))]

RECURSIVE FSum(_)
FSum(s) == IF s = <<>> THEN Zero ELSE FAdd(Head(s), FSum(Tail(s)))

\* groupby(...).sum() replaced by groupby(...).size()
GroupSumDealValue_Size(rows) ==
    [o \in {CellOf(rows[j], "Owner") : j \in 1..Len(rows)} \ {None, NaN} |->
        Flt(Cardinality({j \in 1..Len(rows) : CellOf(rows[j], "Owner") = o}))]

\* pd.to_numeric(rows['Deal Value'], errors='coerce').fillna(0), then
\* groupby('Owner')['Deal Value'].sum()
GroupSumDealValue(rows) ==
    [o \in OwnerKeys(rows) |->
        FSum([j \in 1..Len(SelectSeq(rows, LAMBDA r : CellOf(r, "Owner") = o)) |->
                fillna0(to_numeric(CellOf(
                    SelectSeq(rows, LAMBDA r : CellOf(r, "Owner") = o)[j],
                    "Deal Value")))])]

\* df_subset with the won table concatenated twice
df_subset_WonTwice == <<"unqualified", "proposal", "won", "won", "lost">>

\* df_subset of line 220: the stages whose rows are sales calls taken
df_subset == <<"unqualified", "proposal", "won", "lost">>

\* the column lookups after the concat that raise KeyError when a label is
\* missing from the frame they are applied to
MissingLabel(t, column) ==
    \/ "Owner" \notin ConcatColumns(t, list_all)
    \/ column \notin ConcatColumns(t, list_all)
    \/ \E g \in {df_subset, <<"unqualified">>,
                 <<"cancelled">>, <<"proposal">>, <<"won">>} :
          \/ "Owner" \notin ConcatColumns(t, g)
          \/ column \notin ConcatColumns(t, g)
    \/ "Deal Value" \notin Range(t["won"].columns)
    \/ "Deal Value" \notin Range(t["proposal"].columns)

\* total = (num / den) * 100 if den != 0 else 0
TotalRate(num, den) == IF den # 0 THEN Times100(F(num, den)) ELSE Zero

\* total = revenue / den if den != 0 else 0
TotalPer(rev, den) == IF den # 0 THEN FDiv(rev, Flt(den)) ELSE Zero

columns_for_totals ==
    <<"New Calls Booked", "Sales Call Taken", "Proposal Rate %", "Show Rate %",
      "Unqualified Rate %", "Cancellation Rate %", "Close Rate %",
      "Close Rate(Show) %", "Close Rate(MQL) %", "Closed Revenue $",
      "Revenue Per Call $", "Revenue Per Showed Up $", "Revenue Per Proposal $",
      "Pipeline Revenue $">>

\* the table of lines 203-361, for a mapping whose seven tables all exist
MetricsTable(t, st_date, end_date, column) ==
    LET flt(stages) == filter_date(ConcatRows(t, stages), column, st_date, end_date)
        all_deal == ConcatRows(t, list_all)
        owners == unique(SelectSeq([j \in 1..Len(all_deal) |->
                                       CellOf(all_deal[j], "Owner")],
                                   LAMBDA v : ~isna(v)))
        new_calls_booked == GroupSize(flt(list_all))
        sales_calls_taken ==
            GroupSize(flt(df_subset))
        NCB == [o \in Range(owners) |-> fillna0(MapOwner(new_calls_booked, o))]
        SCT == [o \in Range(owners) |-> fillna0(MapOwner(sales_calls_taken, o))]
        total_ncb == SumSeq([j \in 1..Len(owners) |-> NCB[owners[j]].n])
        total_sct == SumSeq([j \in 1..Len(owners) |-> SCT[owners[j]].n])
        show_rate == ReplaceInfFillna(SeriesDiv(sales_calls_taken, NCB))
        f_unq == flt(<<"unqualified">>)
        uq_rate == ReplaceInfFillna(SeriesDiv(GroupSize(f_unq), NCB))
        f_canc == flt(<<"cancelled">>)
        canc_rate == ReplaceInfFillna(SeriesDiv(GroupSize(f_canc), NCB))
        f_prop == flt(<<"proposal">>)
        f_won == flt(<<"won">>)
        prop == GroupSize(f_prop)
        won_r == GroupSize(f_won)
        prop_rate == ReplaceInfFillna(SeriesDiv(SeriesAdd(prop, won_r), NCB))
        close == GroupSize(f_won)
        close_rate == ReplaceInfFillna(SeriesDiv(close, NCB))
        total_close == Len(f_won)
        close_rate_show == ReplaceInfFillna(SeriesDiv(close, SCT))
        prop_show_mql == GroupSize(f_prop)
        close_show_rate_mql == ReplaceInfFillna(SeriesDiv(close, prop_show_mql))
        total_proposal_mql == Len(f_prop) + Len(f_won)
        owner_sum == GroupSumDealValue(f_won)
        ClosedRevenue == [o \in Range(owners) |-> fillna0(MapOwner(owner_sum, o))]
        total_cr == FSum([j \in 1..Len(owners) |-> ClosedRevenue[owners[j]]])
        rev_per_call == ReplaceInfFillna(SeriesDiv(owner_sum, NCB))
        rev_per_showed_up == ReplaceInfFillna(SeriesDiv(owner_sum, SCT))
        rev_per_proposal == ReplaceInfFillna(SeriesDiv(owner_sum, prop))
        owner_sum_prop == GroupSumDealValue(f_prop)
        PipelineRevenue ==
            [o \in Range(owners) |-> fillna0(MapOwner(owner_sum_prop, o))]
        total_pipeline_rev ==
            FSum([j \in 1..Len(owners) |-> PipelineRevenue[owners[j]]])
        OwnerRow(o) ==
            [c \in {"Owner"} \cup Range(columns_for_totals) |->
                CASE c = "Owner" -> o
                  [] c = "New Calls Booked" -> NCB[o].n
                  [] c = "Sales Call Taken" -> SCT[o].n
                  [] c = "Show Rate %" -> Times100(MapOwner(show_rate, o))
                  [] c = "Unqualified Rate %" -> Times100(MapOwner(uq_rate, o))
                  [] c = "Cancellation Rate %" -> Times100(MapOwner(canc_rate, o))
                  [] c = "Proposal Rate %" -> Times100(MapOwner(prop_rate, o))
                  [] c = "Close Rate %" -> Times100(MapOwner(close_rate, o))
                  [] c = "Close Rate(Show) %" ->
                        Times100(MapOwner(close_rate_show, o))
                  [] c = "Close Rate(MQL) %" ->
                        Times100(MapOwner(close_show_rate_mql, o))
                  [] c = "Closed Revenue $" -> ClosedRevenue[o]
                  [] c = "Revenue Per Call $" -> fillna0(MapOwner(rev_per_call, o))
                  [] c = "Revenue Per Showed Up $" ->
                        fillna0(MapOwner(rev_per_showed_up, o))
                  [] c = "Revenue Per Proposal $" ->
                        fillna0(MapOwner(rev_per_proposal, o))
                  [] c = "Pipeline Revenue $" -> PipelineRevenue[o]]
        total_dict ==
            [c \in {"Owner"} \cup Range(columns_for_totals) |->
                CASE c = "Owner" -> TotalOwner
                  [] c = "New Calls Booked" -> total_ncb
                  [] c = "Sales Call Taken" -> total_sct
                  [] c = "Show Rate %" -> TotalRate(total_sct, total_ncb)
                  [] c = "Unqualified Rate %" -> TotalRate(Len(f_unq), total_ncb)
                  [] c = "Cancellation Rate %" -> TotalRate(Len(f_canc), total_ncb)
                  [] c = "Proposal Rate %" ->
                        TotalRate(Len(f_prop) + Len(f_won), total_ncb)
                  [] c = "Close Rate %" -> TotalRate(total_close, total_ncb)
                  [] c = "Close Rate(Show) %" -> TotalRate(total_close, total_sct)
                  [] c = "Close Rate(MQL) %" ->
                        TotalRate(total_close, total_proposal_mql)
                  [] c = "Closed Revenue $" -> total_cr
                  [] c = "Revenue Per Call $" -> TotalPer(total_cr, total_ncb)
                  [] c = "Revenue Per Showed Up $" -> TotalPer(total_cr, total_sct)
                  [] c = "Revenue Per Proposal $" ->
                        TotalPer(total_cr, total_proposal_mql)
                  [] c = "Pipeline Revenue $" -> total_pipeline_rev]
    IN  [j \in 1..Len(owners) |-> OwnerRow(owners[j])] \o <<total_dict>>

\* process_data(dataframes, st_date, end_date, column): what it returns or
\* raises, and the caller's mapping as the call leaves it
process_data(dataframes, st_date, end_date, column) ==
    LET after == RewriteSalesCallDate(dataframes)
        t == [key \in Range(list_all) |-> Get(after, key, EmptyDataFrame)]
    IN  IF FirstKeyError(dataframes) # 0 \/ MissingLabel(t, column)
        THEN [status |-> "KeyError", df |-> <<>>, dataframes |-> after]
        ELSE [status |-> "ok",
              df |-> MetricsTable(t, st_date, end_date, column),
              dataframes |-> after]

\* -------------------------------------------------------------- fetch_data
group_list == <<"topics", "new_group34578__1", "new_group27351__1",
                "new_group54376__1", "new_group64021__1", "new_group65903__1",
                "new_group62617__1">>
name_list == <<"scheduled", "unqualified", "won", "cancelled", "noshow",
               "proposal", "lost">>

\* the entries of columns_with_titles for the attribute ids the board carries
columns_with_titles(c) ==
    CASE c = "person" -> "Owner"
      [] c = "date4" -> "Sales Call Date"
      [] c = "numbers__1" -> "Deal Value"
      [] c = "date5__1" -> "Date Created"
      [] OTHER -> c

\* df.rename(columns=columns_with_titles, inplace=True)
rename(df) ==
    DataFrame([j \in 1..Len(df.columns) |-> columns_with_titles(df.columns[j])],
        [j \in 1..Len(df.rows) |->
            [c \in {columns_with_titles(k) : k \in DOMAIN df.rows[j]} |->
                df.rows[j][CHOOSE k \in DOMAIN df.rows[j] :
                              columns_with_titles(k) = c]]])

\* ---------------------------------------------------- the board's contents
Item(id, cvs) == [id |-> Cell("id", id), name |-> Garbage, column_values |-> cvs]
CV(id, text) == [id |-> id, text |-> text]
Values(person, date4, numbers, date5) ==
    <<CV("person", person), CV("date4", date4), CV("numbers__1", numbers),
      CV("date5__1", date5)>>

\* two items of owner 1 and one item whose person text is null
ItemsA ==
    <<Item(1, Values(Name(1), Embedded(1), Num(100), Iso(1))),
      Item(2, Values(Name(1), Iso(2), Num(50), Iso(2))),
      Item(3, Values(None, Garbage, Num(70), Iso(1)))>>

\* items of owners 2 and 1, one of them with a deal value that is no number,
\* and one item whose person dict has no text and that carries no numbers__1
\* value
ItemsB ==
    <<Item(4, Values(Name(2), None, Num(30), Iso(2))),
      Item(5, <<[id |-> "person"], CV("date4", Embedded(2)),
                CV("date5__1", Iso(3))>>),
      Item(6, Values(Name(1), Iso(2), Num(20), Iso(1))),
      Item(7, Values(Name(1), Iso(2), Garbage, Embedded(1)))>>

\* what fetch_items_recursive may return for a group
GroupItems == {<<>>, ItemsA, ItemsB}

Days == 0..MaxDay
DateColumns == {"Date Created", "Sales Call Date"}
\* the mappings a caller passes: the fetched one, or one without 'noshow'
KeySets == {Range(name_list), Range(name_list) \ {"noshow"}}

\* the group ids fetch_groups may return: the board with all seven groups, or
\* the board without the group of won deals
Boards == {Range(group_list), Range(group_list) \ {group_list[3]}}

VARIABLES
    pc,          \* "start": fetch_data entered; "fetch": inside its loop;
                 \* "stopped": halted by st.stop(); "ready": data in session
    groups,      \* fetch_data: the ids of the groups fetch_groups returned
    board,       \* the items the server holds for each group id asked for
    error,       \* the message given to st.error, "" when none
    i,           \* fetch_data: number of groups fetched so far
    items,       \* fetch_data: the items of the group fetched last
    df_items,    \* fetch_data: items_to_dataframe(items)
    dataframes,  \* fetch_data: the mapping under construction
    session,     \* st.session_state['dataframes'] once fetched
    calls,       \* the process_data calls made on session, in order: their
                 \* arguments (given: the mapping as passed) and outcome
    fpc,         \* fetch_items_recursive: "call", "initial" (response to
                 \* the initial query at hand), "while" (at the loop test),
                 \* "next" (response to a next query at hand), "returned",
                 \* "raised"
    cursor,      \* fetch_items_recursive: cursor
    all_items,   \* fetch_items_recursive: all_items
    response,    \* fetch_items_recursive: the response at hand
    pages,       \* the pages of items the server has sent, in order
    requests,    \* the queries posted to the server, in order
    mpc,         \* main: "idle" (no run yet), "fetch_button", "validate",
                 \* "owner_filter", "process_button", "done", "stopped",
                 \* "raised"
    widgets,     \* main: what the user's widgets hold in the current run
    has_data,    \* main: st.session_state['dataframes'] is not None
    reported,    \* main: the messages shown in the current run
    invoked,     \* main: process_data was called in the current run
    nruns        \* main: number of runs started

dataVars == <<pc, groups, board, error, i, items, df_items, dataframes,
              session, calls>>
pageVars == <<fpc, cursor, all_items, response, pages, requests>>
mainVars == <<mpc, widgets, has_data, reported, invoked, nruns>>
vars == <<dataVars, pageVars, mainVars>>

\* what the widgets hold before the first run
NoWidgets == [fetch |-> FALSE, process |-> FALSE, st_date |-> 0, en_date |-> 0]
\* no response at hand
NoResponse == [kind |-> "none", items |-> <<>>, cursor |-> None]

EmptyMapping == [key \in {} |-> EmptyDataFrame]

Init ==
    /\ pc = "start"
    /\ groups = {}
    /\ board = [g \in {} |-> <<>>]
    /\ error = ""
    /\ i = 0
    /\ items = <<>>
    /\ df_items = EmptyDataFrame
    /\ dataframes = EmptyMapping
    /\ session = EmptyMapping
    /\ calls = <<>>
    /\ fpc = "call"
    /\ cursor = None
    /\ all_items = <<>>
    /\ response = NoResponse
    /\ pages = <<>>
    /\ requests = <<>>
    /\ mpc = "idle"
    /\ widgets = NoWidgets
    /\ has_data = FALSE
    /\ reported = {}
    /\ invoked = FALSE
    /\ nruns = 0

EmptyGroups(d) == Cardinality({key \in DOMAIN d : d[key].rows = <<>>})

\* st.error(message); st.stop(): the script run ends here
Stop(message) ==
    /\ error' = message
    /\ pc' = "stopped"
    /\ UNCHANGED <<groups, board, i, items, df_items, dataframes, session,
                   calls>>
    /\ UNCHANGED <<pageVars, mainVars>>

\* st.secrets has no MONDAY_API_KEY (lines 84-88)
NoApiKey ==
    /\ pc = "start"
    /\ Stop("Error: MONDAY_API_KEY is not set in secrets.toml.")

\* fetch_groups raises (lines 91-95)
FetchGroupsRaises ==
    /\ pc = "start"
    /\ Stop("Error fetching groups")

\* fetch_groups returns the groups of the board (line 92)
FetchGroups ==
    /\ pc = "start"
    /\ groups' \in Boards
    /\ pc' = "fetch"
    /\ UNCHANGED <<board, error, i, items, df_items, dataframes, session,
                   calls>>
    /\ UNCHANGED <<pageVars, mainVars>>

\* the group is skipped and the loop goes on with the next one
GroupNotFound_Continue ==
    /\ pc = "fetch"
    /\ i < Len(group_list)
    /\ group_list[i + 1] \notin groups
    /\ i' = i + 1
    /\ UNCHANGED <<pc, groups, board, error, items, df_items, dataframes,
                   session, calls>>
    /\ UNCHANGED <<pageVars, mainVars>>

\* the loop finds no group with the wanted id (lines 105-108)
GroupNotFound ==
    /\ pc = "fetch"
    /\ i < Len(group_list)
    /\ group_list[i + 1] \notin groups
    /\ Stop("Group not found in board")

\* fetch_items_recursive raises for the group (lines 113-117)
FetchItemsRaises ==
    /\ pc = "fetch"
    /\ i < Len(group_list)
    /\ group_list[i + 1] \in groups
    /\ Stop("Error fetching items for group")

\* one iteration of the loop of fetch_data (lines 103-123)
FetchGroup ==
    /\ pc = "fetch"
    /\ i < Len(name_list)
    /\ group_list[i + 1] \in groups
    /\ \E its \in GroupItems :
          /\ its = <<>> => EmptyGroups(dataframes) < MaxEmptyGroups
          /\ board' = [g \in DOMAIN board \cup {group_list[i + 1]} |->
                         IF g = group_list[i + 1] THEN its ELSE board[g]]
          /\ items' = its
          /\ df_items' = items_to_dataframe(its)
          /\ dataframes' = [key \in DOMAIN dataframes \cup {name_list[i + 1]} |->
                              IF key = name_list[i + 1] THEN df_items'
                              ELSE dataframes[key]]
    /\ i' = i + 1
    /\ UNCHANGED <<pc, groups, error, session, calls>>
    /\ UNCHANGED <<pageVars, mainVars>>

\* the renaming loop and the return of fetch_data (lines 157-163), stored by
\* main into the session state (line 436)
ReturnData ==
    /\ pc = "fetch"
    /\ i = Len(name_list)
    /\ dataframes' = [key \in DOMAIN dataframes |-> rename(dataframes[key])]
    /\ session' = dataframes'
    /\ pc' = "ready"
    /\ UNCHANGED <<groups, board, error, i, items, df_items, calls>>
    /\ UNCHANGED <<pageVars, mainVars>>

\* a call process_data(given, st_date, end_date, column) where given holds the
\* tables of session under the keys of keys; the tables are shared, so the
\* call's rewriting of Sales Call Date shows in session
ProcessData(keys, st_date, end_date, column) ==
    /\ pc = "ready"
    /\ Len(calls) < MaxCalls
    /\ st_date <= end_date
    /\ LET given == [key \in keys \cap DOMAIN session |-> session[key]]
           out == process_data(given, st_date, end_date, column)
       IN  /\ calls' = Append(calls,
                  [given |-> given, st_date |-> st_date, end_date |-> end_date,
                   column |-> column, status |-> out.status, df |-> out.df])
           /\ session' = [key \in DOMAIN session |->
                            IF key \in DOMAIN given THEN out.dataframes[key]
                            ELSE session[key]]
    /\ UNCHANGED <<pc, groups, board, error, i, items, df_items, dataframes>>
    /\ UNCHANGED <<pageVars, mainVars>>

\* the first call on a freshly fetched mapping
FirstCall ==
    /\ calls = <<>>
    /\ \E keys \in KeySets, st_date \in Days, end_date \in Days,
          column \in DateColumns :
          ProcessData(keys, st_date, end_date, column)

\* a further call on the same mapping object with the same date range
RepeatCall ==
    /\ calls # <<>>
    /\ \E column \in DateColumns :
          ProcessData(DOMAIN calls[1].given, calls[1].st_date,
                      calls[1].end_date, column)

Next ==
    \/ NoApiKey \/ FetchGroupsRaises \/ FetchGroups
    \/ GroupNotFound \/ FetchItemsRaises \/ FetchGroup \/ ReturnData
    \/ FirstCall \/ RepeatCall

Spec == Init /\ [][Next]_vars

\* --------------------------------------------------- fetch_items_recursive
\* (src/monday_extract_groups.py)
Cursor(n) == Cell("cursor", n)

\* bool(cursor) of 'while cursor:': None and '' are false
Truthy(c) == c \notin {None, Empty}

\* the item ids of page number p when it holds n items
PageItems(p, n) == [j \in 1..n |-> (MaxItemsPerPage + 1) * p + j]

\* the responses the server may give to the request for page number p: a
\* status code other than 200, a body with 'errors', a body without the
\* page, or a page of items; the cursor of a page is null, '', or the cursor
\* of the next page, which page number MaxPages does not have
Responses(p) ==
    {[kind |-> k, items |-> <<>>, cursor |-> None] :
        k \in {"status", "errors", "malformed"}}
    \cup {[kind |-> "page", items |-> PageItems(p, n), cursor |-> c] :
            n \in 0..MaxItemsPerPage,
            c \in {None, Empty} \cup
                  (IF p < MaxPages THEN {Cursor(p + 1)} ELSE {})}

\* the variables of the initial query and of a next query
InitialQuery == [query |-> "items_page", cursor |-> None]
NextQuery(c) == [query |-> "next_items_page", cursor |-> c]

\* requests.post(...) with the initial query (lines 219-223)
PostInitial ==
    /\ fpc = "call"
    /\ requests' = Append(requests, InitialQuery)
    /\ response' \in Responses(1)
    /\ pages' = IF response'.kind = "page"
                 THEN Append(pages, [items |-> response'.items,
                                     cursor |-> response'.cursor])
                 ELSE pages
    /\ fpc' = "initial"
    /\ UNCHANGED <<cursor, all_items>>
    /\ UNCHANGED <<dataVars, mainVars>>

\* the checks of a response that raise (lines 225-232, 239-240, 269-276,
\* 283-284)
Raise ==
    /\ fpc \in {"initial", "next"}
    /\ response.kind # "page"
    /\ fpc' = "raised"
    /\ UNCHANGED <<cursor, all_items, response, pages, requests>>
    /\ UNCHANGED <<dataVars, mainVars>>

\* all_items.extend(items) keeping only the new items
extend_Replace(list, more) == more

\* all_items.extend(items)
extend(list, more) == list \o more

\* the items and the cursor of the page are taken (lines 234-238, 278-282)
TakePage ==
    /\ fpc \in {"initial", "next"}
    /\ response.kind = "page"
    /\ all_items' = extend(all_items, response.items)
    /\ cursor' = response.cursor
    /\ fpc' = "while"
    /\ UNCHANGED <<response, pages, requests>>
    /\ UNCHANGED <<dataVars, mainVars>>

\* 'while cursor:' holds: requests.post(...) with the next query (lines
\* 242-267)
PostNext ==
    /\ fpc = "while"
    /\ Truthy(cursor)
    /\ requests' = Append(requests, NextQuery(cursor))
    /\ response' \in Responses(cursor.d)
    /\ pages' = IF response'.kind = "page"
                 THEN Append(pages, [items |-> response'.items,
                                     cursor |-> response'.cursor])
                 ELSE pages
    /\ fpc' = "next"
    /\ UNCHANGED <<cursor, all_items>>
    /\ UNCHANGED <<dataVars, mainVars>>

\* 'while cursor:' fails: return all_items (line 286)
ReturnItems ==
    /\ fpc = "while"
    /\ ~Truthy(cursor)
    /\ fpc' = "returned"
    /\ UNCHANGED <<cursor, all_items, response, pages, requests>>
    /\ UNCHANGED <<dataVars, mainVars>>

NextPages == PostInitial \/ Raise \/ TakePage \/ PostNext \/ ReturnItems

SpecPages == Init /\ [][NextPages]_vars

\* a call of fetch_items_recursive runs on as long as it has a step to take
FairPages == SpecPages /\ WF_vars(NextPages)

\* -------------------------------------------------------------------- main
\* st.<element>(message): the message is shown in the current run
Show(message) == reported' = reported \cup {message}

ValidationError == "Error: Start Date must be before End Date."
FetchStopped == "fetch_data: st.error and st.stop"
FetchFailed == "An error occurred while fetching data"
FetchFirst == "Please fetch data first by clicking the 'Fetch Data' button."
ProcessingError == "Data processing error"

\* a run of the script starts: the user pressed a button or changed a widget
\* (Streamlit reruns main from the top)
StartRun ==
    /\ mpc \in {"idle", "done", "stopped", "raised"}
    /\ nruns < MaxRuns
    /\ nruns' = nruns + 1
    /\ \E fetch \in BOOLEAN, process \in BOOLEAN, st_date \in Days,
          en_date \in Days :
          widgets' = [fetch |-> fetch, process |-> process,
                      st_date |-> st_date, en_date |-> en_date]
    /\ reported' = {}
    /\ invoked' = FALSE
    /\ mpc' = "fetch_button"
    /\ UNCHANGED has_data
    /\ UNCHANGED <<dataVars, pageVars>>

\* 'Fetch Data' was not pressed (line 432)
SkipFetch ==
    /\ mpc = "fetch_button"
    /\ ~widgets.fetch
    /\ mpc' = "validate"
    /\ UNCHANGED <<widgets, has_data, reported, invoked, nruns>>
    /\ UNCHANGED <<dataVars, pageVars>>

\* fetch_data returns its mapping (lines 436-437)
FetchReturns ==
    /\ mpc = "fetch_button"
    /\ widgets.fetch
    /\ has_data' = TRUE
    /\ Show("Data fetched successfully!")
    /\ mpc' = "validate"
    /\ UNCHANGED <<widgets, invoked, nruns>>
    /\ UNCHANGED <<dataVars, pageVars>>

\* fetch_data ends the run by st.error and st.stop (lines 87-88, 94-95,
\* 107-108, 116-117)
FetchStops ==
    /\ mpc = "fetch_button"
    /\ widgets.fetch
    /\ Show(FetchStopped)
    /\ mpc' = "stopped"
    /\ UNCHANGED <<widgets, has_data, invoked, nruns>>
    /\ UNCHANGED <<dataVars, pageVars>>

\* fetch_data raises an Exception, which main catches (lines 438-439)
FetchRaises ==
    /\ mpc = "fetch_button"
    /\ widgets.fetch
    /\ Show(FetchFailed)
    /\ mpc' = "validate"
    /\ UNCHANGED <<widgets, has_data, invoked, nruns>>
    /\ UNCHANGED <<dataVars, pageVars>>

\* the validation error is shown and the run goes on
ValidateFails_NoStop ==
    /\ mpc = "validate"
    /\ widgets.st_date > widgets.en_date
    /\ Show(ValidationError)
    /\ mpc' = "owner_filter"
    /\ UNCHANGED <<widgets, has_data, invoked, nruns>>
    /\ UNCHANGED <<dataVars, pageVars>>

\* st_date > en_date: error and st.stop (lines 456-458)
ValidateFails ==
    /\ mpc = "validate"
    /\ widgets.st_date > widgets.en_date
    /\ Show(ValidationError)
    /\ mpc' = "stopped"
    /\ UNCHANGED <<widgets, has_data, invoked, nruns>>
    /\ UNCHANGED <<dataVars, pageVars>>

\* st_date <= en_date (line 456)
ValidateOk ==
    /\ mpc = "validate"
    /\ ~(widgets.st_date > widgets.en_date)
    /\ mpc' = "owner_filter"
    /\ UNCHANGED <<widgets, has_data, reported, invoked, nruns>>
    /\ UNCHANGED <<dataVars, pageVars>>

\* the owner filter is built (lines 461-479)
OwnerFilter ==
    /\ mpc = "owner_filter"
    /\ mpc' = "process_button"
    /\ UNCHANGED <<widgets, has_data, reported, invoked, nruns>>
    /\ UNCHANGED <<dataVars, pageVars>>

\* the 'won' table has no Owner column: the KeyError of line 465 ends the run
OwnerFilterRaises ==
    /\ mpc = "owner_filter"
    /\ has_data
    /\ mpc' = "raised"
    /\ UNCHANGED <<widgets, has_data, reported, invoked, nruns>>
    /\ UNCHANGED <<dataVars, pageVars>>

\* 'Process Data' was not pressed (line 482)
SkipProcess ==
    /\ mpc = "process_button"
    /\ ~widgets.process
    /\ mpc' = "done"
    /\ UNCHANGED <<widgets, has_data, reported, invoked, nruns>>
    /\ UNCHANGED <<dataVars, pageVars>>

\* 'Process Data' pressed before any data was fetched (lines 483-485)
ProcessWithoutData ==
    /\ mpc = "process_button"
    /\ widgets.process
    /\ ~has_data
    /\ Show(FetchFirst)
    /\ mpc' = "stopped"
    /\ UNCHANGED <<widgets, has_data, invoked, nruns>>
    /\ UNCHANGED <<dataVars, pageVars>>

\* process_data is called and returns (lines 486-493)
ProcessReturns ==
    /\ mpc = "process_button"
    /\ widgets.process
    /\ has_data
    /\ invoked' = TRUE
    /\ Show("Data processed successfully!")
    /\ mpc' = "done"
    /\ UNCHANGED <<widgets, has_data, nruns>>
    /\ UNCHANGED <<dataVars, pageVars>>

\* process_data is called and raises (lines 486-500)
ProcessRaises ==
    /\ mpc = "process_button"
    /\ widgets.process
    /\ has_data
    /\ invoked' = TRUE
    /\ Show(ProcessingError)
    /\ mpc' = "stopped"
    /\ UNCHANGED <<widgets, has_data, nruns>>
    /\ UNCHANGED <<dataVars, pageVars>>

NextMain ==
    \/ StartRun \/ SkipFetch \/ FetchReturns \/ FetchStops \/ FetchRaises
    \/ ValidateFails \/ ValidateOk \/ OwnerFilter \/ OwnerFilterRaises
    \/ SkipProcess \/ ProcessWithoutData \/ ProcessReturns \/ ProcessRaises

SpecMain == Init /\ [][NextMain]_vars

\* =================================================================== claims
\* Reference definitions the claims are stated with; none of them uses the
\* operators of process_data.
Stages == {"scheduled", "unqualified", "won", "cancelled", "noshow",
           "proposal", "lost"}
SalesCallStages == {"unqualified", "proposal", "won", "lost"}
RateColumns == {"Show Rate %", "Unqualified Rate %", "Cancellation Rate %",
                "Proposal Rate %", "Close Rate %", "Close Rate(Show) %",
                "Close Rate(MQL) %"}
RevenuePerColumns == {"Revenue Per Call $", "Revenue Per Showed Up $",
                      "Revenue Per Proposal $"}
BookedColumns == {"Show Rate %", "Unqualified Rate %", "Cancellation Rate %",
                  "Proposal Rate %", "Close Rate %", "Revenue Per Call $"}

OkCalls == {k \in 1..Len(calls) : calls[k].status = "ok"}
OwnerRows(c) == SubSeq(c.df, 1, Len(c.df) - 1)
TotalRow(c) == c.df[Len(c.df)]

\* the calendar day a row is filed under for call c, -1 when it has none: the
\* Sales Call Date is the date found inside the text, the Date Created is the
\* text read as a date
DayOf(c, r) ==
    LET v == r[c.column]
    IN  IF c.column = "Sales Call Date"
        THEN (IF v.k \in {"iso", "embedded"} THEN v.d ELSE -1)
        ELSE (IF v.k = "iso" THEN v.d ELSE -1)

InRange(c, r) == DayOf(c, r) >= c.st_date /\ DayOf(c, r) <= c.end_date

\* the date-filtered rows of one stage of call c, and their number per owner
Selected(c, stage) == SelectSeq(c.given[stage].rows, LAMBDA r : InRange(c, r))
Count(c, stage, o) ==
    Cardinality({j \in 1..Len(Selected(c, stage)) :
                    Selected(c, stage)[j]["Owner"] = o})
RECURSIVE CountIn(_, _, _)
CountIn(c, stages, o) ==
    IF stages = {} THEN 0
    ELSE LET s == CHOOSE x \in stages : TRUE
         IN  Count(c, s, o) + CountIn(c, stages \ {s}, o)

\* x is the rate num/den in percent
IsPercent(x, num, den) == x.k = "num" /\ x.n * den = 100 * num * x.d
\* x is the quotient num/den of a float num and a count den
IsQuotient(x, num, den) == x.k = "num" /\ x.n * num.d * den = num.n * x.d

RECURSIVE ColumnTotal(_, _)
\* the sum of an integer column over rows
ColumnTotal(rows, col) ==
    IF rows = <<>> THEN 0
    ELSE rows[1][col] + ColumnTotal(Tail(rows), col)

RECURSIVE MoneyTotal(_, _)
\* the sum of a money column over rows, as a pair <<numerator, denominator>>
MoneyTotal(rows, col) ==
    IF rows = <<>> THEN <<0, 1>>
    ELSE LET t == MoneyTotal(Tail(rows), col)
             x == rows[1][col]
         IN  <<x.n * t[2] + t[1] * x.d, x.d * t[2]>>

\* a table with the fetched columns and no row
ZeroRowTable ==
    DataFrame(<<"Item ID", "Item Name", "Owner", "Sales Call Date",
                "Deal Value", "Date Created">>, <<>>)

\* the stages call c got no key or an empty table for
MissingStages(c) ==
    {s \in Stages : s \notin DOMAIN c.given \/ c.given[s] = EmptyDataFrame}

\* the mapping of call c with every missing or empty stage present, zero rows
WithZeroRowStages(c) ==
    [s \in Stages |-> IF s \in MissingStages(c) THEN ZeroRowTable ELSE c.given[s]]

\* C1: a call whose mapping lacks a stage key, or holds the empty table of
\* zero ingested records for it, completes without raising; the stage
\* contributes 0 to every count and every cell is what it would be were the
\* stage present with zero rows.
C1_MissingStageTolerated ==
    \A k \in 1..Len(calls) :
        MissingStages(calls[k]) # {} =>
            /\ calls[k].status = "ok"
            /\ calls[k].df = process_data(WithZeroRowStages(calls[k]),
                                 calls[k].st_date, calls[k].end_date,
                                 calls[k].column).df

\* C2: in every owner row, Proposal Rate is (date-filtered proposal rows of
\* the owner + date-filtered won rows of the owner) / New Calls Booked, in
\* percent, an owner absent from either group counting 0 there.
C2_ProposalRate ==
    \A k \in OkCalls : \A j \in 1..Len(OwnerRows(calls[k])) :
        LET c == calls[k]
            r == c.df[j]
        IN  r["New Calls Booked"] > 0 =>
                IsPercent(r["Proposal Rate %"],
                          Count(c, "proposal", r["Owner"])
                              + Count(c, "won", r["Owner"]),
                          r["New Calls Booked"])

\* C3: every rate cell and every revenue-per-X cell of every row is a finite
\* number, and it is 0 for an owner without date-filtered proposal rows in
\* the two columns divided by the proposal count.
C3_FiniteCells ==
    \A k \in OkCalls : \A j \in 1..Len(calls[k].df) :
        LET c == calls[k]
            r == c.df[j]
        IN  /\ \A col \in RateColumns \cup RevenuePerColumns : r[col].k = "num"
            /\ (j < Len(c.df) /\ Count(c, "proposal", r["Owner"]) = 0) =>
                  /\ r["Close Rate(MQL) %"] = Zero
                  /\ r["Revenue Per Proposal $"] = Zero

\* the two readings of a global count over stages: rows that have an owner
\* (the sum over the owner rows) and all rows
GlobalCounts(c, stages) ==
    LET owned == {o \in UNION {{c.given[s].rows[j]["Owner"] :
                                  j \in 1..Len(c.given[s].rows)} : s \in Stages} :
                     o \notin {None, NaN}}
        RECURSIVE Owned(_)
        Owned(os) == IF os = {} THEN 0
                     ELSE LET o == CHOOSE x \in os : TRUE
                          IN  CountIn(c, stages, o) + Owned(os \ {o})
        RECURSIVE All(_)
        All(ss) == IF ss = {} THEN 0
                   ELSE LET s == CHOOSE x \in ss : TRUE
                        IN  Len(Selected(c, s)) + All(ss \ {s})
    IN  {Owned(owned), All(stages)}

\* x is 100 * num / den for some reading of the two global counts, 0 when
\* the denominator is 0
IsGlobalRate(x, c, numStages, denStages) ==
    \E num \in GlobalCounts(c, numStages), den \in GlobalCounts(c, denStages) :
        IF den = 0 THEN x = Zero ELSE IsPercent(x, num, den)

\* x is revenue / den for some reading of the global count, 0 when it is 0
IsGlobalPer(x, c, revenue, denStages) ==
    \E den \in GlobalCounts(c, denStages) :
        IF den = 0 THEN x = Zero ELSE IsQuotient(x, revenue, den)

\* C4: in the Total row every rate and revenue-per-X column is the owner
\* rows' formula applied to the global aggregates; Close Rate(MQL) is total
\* Close count / total Proposal count and Revenue Per Proposal is total
\* Closed Revenue / total Proposal count.
C4_TotalRowFormulas ==
    \A k \in OkCalls :
        LET c == calls[k]
            T == TotalRow(c)
        IN  /\ IsGlobalRate(T["Show Rate %"], c, SalesCallStages, Stages)
            /\ IsGlobalRate(T["Unqualified Rate %"], c, {"unqualified"}, Stages)
            /\ IsGlobalRate(T["Cancellation Rate %"], c, {"cancelled"}, Stages)
            /\ IsGlobalRate(T["Proposal Rate %"], c, {"proposal", "won"}, Stages)
            /\ IsGlobalRate(T["Close Rate %"], c, {"won"}, Stages)
            /\ IsGlobalRate(T["Close Rate(Show) %"], c, {"won"}, SalesCallStages)
            /\ IsGlobalRate(T["Close Rate(MQL) %"], c, {"won"}, {"proposal"})
            /\ IsGlobalPer(T["Revenue Per Call $"], c, T["Closed Revenue $"], Stages)
            /\ IsGlobalPer(T["Revenue Per Showed Up $"], c, T["Closed Revenue $"],
                           SalesCallStages)
            /\ IsGlobalPer(T["Revenue Per Proposal $"], c, T["Closed Revenue $"],
                           {"proposal"})

\* the mapping of call c without the rows that have no owner
WithoutOwnerless(c) ==
    [s \in DOMAIN c.given |->
        DataFrame(c.given[s].columns,
                  SelectSeq(c.given[s].rows,
                            LAMBDA r : r["Owner"] \notin {None, NaN}))]

\* C5: records without owner take no part in the aggregation: the table of a
\* call equals, cell for cell, the table computed from the same mapping
\* without its ownerless rows.
C5_OwnerlessExcluded ==
    \A k \in OkCalls :
        calls[k].df = process_data(WithoutOwnerless(calls[k]), calls[k].st_date,
                                   calls[k].end_date, calls[k].column).df

\* C6: the Total row's New Calls Booked, Sales Call Taken, Closed Revenue
\* and Pipeline Revenue each equal the sum of the column over the owner rows.
C6_TotalIsSumOfOwners ==
    \A k \in OkCalls :
        LET c == calls[k]
            T == TotalRow(c)
            money(col) == MoneyTotal(OwnerRows(c), col)
        IN  /\ T["New Calls Booked"] = ColumnTotal(OwnerRows(c), "New Calls Booked")
            /\ T["Sales Call Taken"] = ColumnTotal(OwnerRows(c), "Sales Call Taken")
            /\ \A col \in {"Closed Revenue $", "Pipeline Revenue $"} :
                  /\ T[col].k = "num"
                  /\ T[col].n * money(col)[2] = money(col)[1] * T[col].d

\* C6 witness: a table with two owners that both booked calls and both closed
\* revenue.
C6_Witness ==
    \E k \in OkCalls :
        \E a, b \in 1..Len(OwnerRows(calls[k])) :
            /\ a # b
            /\ calls[k].df[a]["New Calls Booked"] > 0
            /\ calls[k].df[b]["New Calls Booked"] > 0
            /\ calls[k].df[a]["Closed Revenue $"].n > 0
            /\ calls[k].df[b]["Closed Revenue $"].n > 0
            /\ calls[k].df[a]["Pipeline Revenue $"].n > 0

\* C7: process_data called again on the same mapping object with the same
\* dates and filter column returns the same table, cell for cell, although
\* the earlier call rewrote the Sales Call Date columns.
C7_Idempotent ==
    \A j, k \in 1..Len(calls) :
        (/\ j < k
         /\ calls[j].column = calls[k].column
         /\ calls[j].st_date = calls[k].st_date
         /\ calls[j].end_date = calls[k].end_date) =>
            /\ calls[k].status = calls[j].status
            /\ calls[k].df = calls[j].df

\* C7 witness: two successful calls filtering on Sales Call Date, the first
\* of which rewrote the tables and counted a row whose date was inside a text.
C7_Witness ==
    /\ Len(calls) >= 2
    /\ calls[1].status = "ok" /\ calls[2].status = "ok"
    /\ calls[1].column = "Sales Call Date" /\ calls[2].column = "Sales Call Date"
    /\ calls[1].given # calls[2].given
    /\ \E s \in Stages : \E j \in 1..Len(calls[1].given[s].rows) :
          /\ calls[1].given[s].rows[j]["Sales Call Date"].k = "embedded"
          /\ InRange(calls[1], calls[1].given[s].rows[j])
    /\ calls[1].df[1]["New Calls Booked"] > 0

\* the item ids of rows
ItemIds(rows) == [j \in 1..Len(rows) |-> rows[j]["Item ID"]]

\* the text v is a calendar date between st_date and end_date
DatedWithin(v, st_date, end_date) ==
    v.k = "iso" /\ st_date <= v.d /\ v.d <= end_date

\* the tables filter_date is applied to in call c: the given ones after the
\* rewriting of Sales Call Date
Rewritten(c) == RewriteSalesCallDate(c.given)

\* C8: filter_date keeps exactly the rows whose filter-column value parses
\* to a date d with start <= d <= end, both ends included; rows with a
\* missing or unparseable value are dropped and nothing is raised.
C8_FilterDateInclusive ==
    \A k \in OkCalls : \A s \in Stages : \A col \in DateColumns :
        LET c == calls[k]
            rows == Rewritten(c)[s].rows
        IN  ItemIds(filter_date(rows, col, c.st_date, c.end_date))
              = ItemIds(SelectSeq(rows,
                    LAMBDA r : DatedWithin(r[col], c.st_date, c.end_date)))

\* C8 witness: a call that filtered a table holding a row dated exactly start,
\* one exactly end, one the day before start, one the day after end and one
\* without a parseable date.
C8_Witness ==
    \E k \in OkCalls : \E s \in Stages :
        LET c == calls[k]
            cells == {Rewritten(c)[s].rows[j][c.column] :
                         j \in 1..Len(Rewritten(c)[s].rows)}
        IN  /\ Iso(c.st_date) \in cells
            /\ Iso(c.end_date) \in cells
            /\ Iso(c.st_date - 1) \in cells
            /\ Iso(c.end_date + 1) \in cells
            /\ \E v \in cells : v.k # "iso"

\* C9: in an owner row with New Calls Booked = 0 every column divided by New
\* Calls Booked is 0.
C9_ZeroBookedGivesZero ==
    \A k \in OkCalls : \A j \in 1..Len(OwnerRows(calls[k])) :
        calls[k].df[j]["New Calls Booked"] = 0 =>
            \A col \in BookedColumns : calls[k].df[j][col] = Zero

\* C9 witness: an owner with rows on the board and none inside the range,
\* next to an owner who booked calls.
C9_Witness ==
    \E k \in OkCalls : \E a, b \in 1..Len(OwnerRows(calls[k])) :
        /\ calls[k].df[a]["New Calls Booked"] = 0
        /\ calls[k].df[a]["Owner"].k = "name"
        /\ calls[k].df[b]["New Calls Booked"] > 0

\* the column_values of an item that carry a value for attribute id c
Carried(item, c) ==
    {j \in 1..Len(item.column_values) :
        /\ item.column_values[j].id = c
        /\ "text" \in DOMAIN item.column_values[j]
        /\ item.column_values[j].text # None}

\* C10: items_to_dataframe returns one row per record, in input order, and
\* the cell of every attribute column for which the record carries no value
\* (id absent from its column_values, or null text) is the empty string.
C10_MissingValueIsEmptyString ==
    /\ Len(df_items.rows) = Len(items)
    /\ \A j \in 1..Len(items) :
          /\ df_items.rows[j]["Item ID"] = items[j].id
          /\ \A c \in Range(df_items.columns) \ {"Item ID", "Item Name"} :
                Carried(items[j], c) = {} => df_items.rows[j][c] = Empty

\* the Owner cells of the tables of call c in the order of the concatenation
RECURSIVE OwnerColumn(_, _)
OwnerColumn(c, stages) ==
    IF stages = <<>> THEN <<>>
    ELSE [j \in 1..Len(c.given[Head(stages)].rows) |->
             c.given[Head(stages)].rows[j]["Owner"]]
         \o OwnerColumn(c, Tail(stages))

\* the position at which owner o first appears in a column
FirstPos(col, o) == CHOOSE j \in 1..Len(col) :
                       col[j] = o /\ \A m \in 1..(j - 1) : col[m] # o

\* C12: the table has exactly one row per distinct non-empty Owner value of
\* the seven stage tables, in order of first appearance in their
\* concatenation, followed by exactly one Total row; an empty or missing
\* Owner value has no row.
C12_OwnerRows ==
    \A k \in OkCalls :
        LET c == calls[k]
            col == OwnerColumn(c, list_all)
            owners == [j \in 1..Len(OwnerRows(c)) |-> c.df[j]["Owner"]]
        IN  /\ TotalRow(c)["Owner"] = TotalOwner
            /\ Range(owners) = {o \in Range(col) : o.k = "name"}
            /\ \A a, b \in 1..Len(owners) :
                  a < b => /\ owners[a] # owners[b]
                           /\ FirstPos(col, owners[a]) < FirstPos(col, owners[b])

\* the Deal Value of a row as a number: 0 when it is missing or no number
DealOf(r) == IF r["Deal Value"].k = "num" THEN r["Deal Value"].d ELSE 0

RECURSIVE DealTotal(_, _)
\* the sum of the Deal Values of the rows of owner o
DealTotal(rows, o) ==
    IF rows = <<>> THEN 0
    ELSE (IF rows[1]["Owner"] = o THEN DealOf(rows[1]) ELSE 0)
         + DealTotal(Tail(rows), o)

\* C13: in every owner row Closed Revenue is the sum of Deal Value over the
\* owner's date-filtered won rows and Pipeline Revenue the sum over the
\* owner's date-filtered proposal rows, a missing or unparseable Deal Value
\* counting 0; an owner without such rows has 0.
C13_RevenueSums ==
    \A k \in OkCalls : \A j \in 1..Len(OwnerRows(calls[k])) :
        LET c == calls[k]
            r == c.df[j]
        IN  /\ r["Closed Revenue $"]
                 = [k |-> "num", n |-> DealTotal(Selected(c, "won"), r["Owner"]),
                    d |-> 1]
            /\ r["Pipeline Revenue $"]
                 = [k |-> "num",
                    n |-> DealTotal(Selected(c, "proposal"), r["Owner"]), d |-> 1]

\* C13 witness: an owner whose date-filtered won rows hold a number and a
\* text that is no number, in a won table with a date-filtered row without
\* Deal Value, and an owner without any date-filtered won row.
C13_Witness ==
    \E k \in OkCalls :
        LET c == calls[k]
            won == Selected(c, "won")
        IN  /\ \E a, b, m \in 1..Len(won) :
                  /\ won[a]["Owner"] = won[b]["Owner"]
                  /\ won[a]["Owner"].k = "name"
                  /\ won[a]["Deal Value"].k = "num"
                  /\ won[b]["Deal Value"] = Garbage
                  /\ won[m]["Deal Value"] = NaN
            /\ \E j \in 1..Len(OwnerRows(c)) :
                  /\ c.df[j]["Owner"].k = "name"
                  /\ Count(c, "won", c.df[j]["Owner"]) = 0

\* C14: a call leaves the tables of the mapping it was given as they were:
\* after it returned or raised, every cell of every table of the caller's
\* mapping has the value it had before the call.
C14_InputsUntouched ==
    calls # <<>> =>
        \A key \in DOMAIN calls[Len(calls)].given :
            session[key] = calls[Len(calls)].given[key]

\* C17: in every row New Calls Booked and Sales Call Taken are non-negative
\* integers with Sales Call Taken <= New Calls Booked, and Show Rate is at
\* most 100%.
C17_TakenAtMostBooked ==
    \A k \in OkCalls : \A j \in 1..Len(calls[k].df) :
        LET r == calls[k].df[j]
        IN  /\ r["New Calls Booked"] \in Nat
            /\ r["Sales Call Taken"] \in Nat
            /\ r["Sales Call Taken"] <= r["New Calls Booked"]
            /\ r["Show Rate %"].k = "num"
            /\ r["Show Rate %"].n <= 100 * r["Show Rate %"].d

\* C17 witness: a table with an owner who took every call booked and an
\* owner who took some but not all of them.
C17_Witness ==
    \E k \in OkCalls : \E a, b \in 1..Len(OwnerRows(calls[k])) :
        /\ calls[k].df[a]["Sales Call Taken"] = calls[k].df[a]["New Calls Booked"]
        /\ calls[k].df[a]["Sales Call Taken"] > 0
        /\ calls[k].df[b]["Sales Call Taken"] > 0
        /\ calls[k].df[b]["Sales Call Taken"] < calls[k].df[b]["New Calls Booked"]

\* the ids of the items of a page of items, as Item ID cells
IdsOf(its) == [j \in 1..Len(its) |-> its[j].id]

\* C16: fetch_data returns no partial mapping: the mapping it returns has
\* exactly the seven stage keys, each with the table of the items of its own
\* board group; when a group is missing or a fetch raised, an error is
\* reported and no mapping reaches the caller.
C16_NoPartialMapping ==
    /\ pc = "ready" =>
          /\ error = ""
          /\ DOMAIN dataframes = Range(name_list)
          /\ DOMAIN session = Range(name_list)
          /\ \A j \in 1..Len(name_list) :
                /\ group_list[j] \in groups
                /\ ItemIds(dataframes[name_list[j]].rows)
                     = IdsOf(board[group_list[j]])
                /\ ItemIds(session[name_list[j]].rows)
                     = IdsOf(board[group_list[j]])
    /\ pc = "stopped" => error # "" /\ session = EmptyMapping
    /\ (pc \notin {"start", "stopped"} /\ i > 0) => group_list[i] \in groups

\* C16 witness: fetch_data halted on a group that is not on the board after
\* it had put the tables of two other groups, with items, into its mapping.
C16_Witness ==
    /\ pc = "stopped"
    /\ group_list[i + 1] \notin groups
    /\ DOMAIN dataframes = {name_list[1], name_list[2]}
    /\ \A key \in DOMAIN dataframes : dataframes[key].rows # <<>>

RECURSIVE Flatten(_)
\* the items of a sequence of pages, page after page
Flatten(ps) == IF ps = <<>> THEN <<>> ELSE Head(ps).items \o Flatten(Tail(ps))

\* the call of fetch_items_recursive has ended
Ended == fpc \in {"returned", "raised"}

\* the requests made so far are the initial one followed by one next-page
\* request per received page with a non-empty cursor, each carrying the
\* cursor of the page before it; the call returns only on a page whose cursor
\* is null or empty, and returns the items of the received pages in order
PagedInOrder ==
    /\ fpc # "call" => requests # <<>> /\ requests[1].query = "items_page"
    /\ Len(requests) - Len(pages) \in {0, 1}
    /\ \A k \in 2..Len(requests) :
          /\ requests[k].query = "next_items_page"
          /\ pages[k - 1].cursor \notin {None, Empty}
          /\ requests[k].cursor = pages[k - 1].cursor
    /\ fpc = "while" => Len(requests) = Len(pages)
    /\ fpc = "returned" =>
          /\ Len(requests) = Len(pages)
          /\ pages[Len(pages)].cursor \in {None, Empty}
          /\ all_items = Flatten(pages)
          /\ Cardinality(Range(all_items)) = Len(all_items)

\* C15: fetch_items_recursive posts the initial query and then a next-page
\* query exactly while the page received last carried a non-empty cursor; on
\* a page with a null or empty cursor it returns the items of all received
\* pages in the order received, none dropped or duplicated; with a server
\* that ends its pages the call ends.
C15_Pagination == []PagedInOrder /\ <>Ended

\* C15 witness: the call returned after three pages, the last one with an
\* empty-string cursor, with items from the first and the last page.
C15_Witness ==
    /\ fpc = "returned"
    /\ Len(pages) >= 3
    /\ pages[1].items # <<>>
    /\ pages[Len(pages)].items # <<>>
    /\ cursor = Empty

\* the current run of main is over
RunOver == mpc \in {"done", "stopped", "raised"}

\* the dates the widgets hold are a start after the end
InvalidDates == widgets.st_date > widgets.en_date

\* C11 as stated: in every run with a start date after the end date the
\* validation error is reported and process_data is not invoked, whether or
\* not data was fetched or 'Process Data' pressed; process_data is invoked
\* only in runs with start <= end.
C11_InvalidDatesReported ==
    /\ (RunOver /\ InvalidDates) => ValidationError \in reported /\ ~invoked
    /\ invoked => ~InvalidDates

\* C11 amended: process_data is invoked only in runs with start <= end; a
\* run with a start date after the end date is stopped without invoking
\* process_data, and reports the validation error unless fetch_data stopped
\* the run before the dates were read.
C11_InvalidDatesNeverProcessed ==
    /\ invoked => ~InvalidDates
    /\ (RunOver /\ InvalidDates) =>
          /\ mpc = "stopped"
          /\ ~invoked
          /\ \/ ValidationError \in reported
             \/ widgets.fetch /\ reported = {FetchStopped}
    /\ ValidationError \in reported => InvalidDates /\ mpc = "stopped"

\* C11 witness: a run with fetched data in the session, 'Process Data'
\* pressed and a start date after the end date, stopped by the validation.
C11_Witness ==
    /\ RunOver
    /\ InvalidDates
    /\ has_data
    /\ widgets.process
    /\ ValidationError \in reported

====
